---- MODULE Spec2Model ----
(***************************************************************************)
(* One run of the dashboard script stock.py, top to bottom, as a state     *)
(* machine: sidebar inputs, data load, Close validation, indicator         *)
(* computation, charts, key metrics, fundamentals, investment insights.    *)
(* A second, independent machine models the headline sentiment scorer.     *)
(*                                                                         *)
(* A float cell is a record [k, v]: k = "num" carries the value v, "nan"   *)
(* is a missing float, "str" is non-numeric text as a provider may deliver *)
(* it, "none" is Python's None.  Comparisons with a cell that is not "num" *)
(* are false, as IEEE comparisons with NaN are.                            *)
(***************************************************************************)
EXTENDS Integers, Sequences, FiniteSets, TLC

VARIABLES
    pc,             \* position of the script run
    popular,        \* sidebar selectbox                         (line 14)
    typed,          \* sidebar text input                        (line 19)
    ticker,         \* resolved ticker                           (lines 19-22)
    indicators,     \* sidebar multiselect                       (line 31)
    columns,        \* data.columns
    Close,          \* data['Close'], raw cells as delivered
    close_col,      \* pd.to_numeric(data['Close'].squeeze(), errors='coerce')
    SMA20,          \* data['SMA20']
    RSI,            \* data['RSI']: its last two entries
    MACD,           \* data['MACD']: its last two entries
    Signal_Line,    \* data['Signal_Line']: its last two entries
    macd_curr,      \* line 74 / 81
    signal_curr,    \* line 74 / 82
    info,           \* line 155: the fundamentals snapshot
    out,            \* what the run has written to the page, in order
    headlines,      \* sentiment scorer: the supplied headlines, most recent first
    scored          \* sentiment scorer: the scored items

runVars == <<pc, popular, typed, ticker, indicators, columns, Close, close_col,
             SMA20, RSI, MACD, Signal_Line, macd_curr, signal_curr, info, out>>
newsVars == <<headlines, scored>>
vars == <<runVars, newsVars>>

----------------------------------------------------------------------------
(* Bounds of the model *)

MaxRows == 27          \* longest price table of the pipeline specification
MaxSMARows == 22       \* longest price table of the moving-average specification
MaxHeadlines == 6      \* longest headline list of the sentiment specification

(* Program constants *)

SMAWindow == 20        \* window=20
RSIWindow == 14        \* window=14
Overbought == 70
Oversold == 30
MACDSlow == 26         \* ta.trend.macd default window_slow

----------------------------------------------------------------------------
(* Cells *)

Num(x) == [k |-> "num", v |-> x]
NaN == [k |-> "nan", v |-> 0]
Str == [k |-> "str", v |-> 0]
None == [k |-> "none", v |-> 0]

IsNum(c) == c.k = "num"
IsNull(c) == c.k \in {"nan", "none"}

Gt(a, b) == IsNum(a) /\ IsNum(b) /\ a.v > b.v
Lt(a, b) == IsNum(a) /\ IsNum(b) /\ a.v < b.v
Ge(a, b) == IsNum(a) /\ IsNum(b) /\ a.v >= b.v
Le(a, b) == IsNum(a) /\ IsNum(b) /\ a.v <= b.v

\* pd.to_numeric(..., errors='coerce') on one cell: text that is no number,
\* and None, become NaN.
to_numeric(c) == IF IsNum(c) THEN c ELSE NaN

\* A derived column, by the entries the script reads: iloc[-2] and iloc[-1].
\* kind "absent": no such column; "series": a float column; "none": the
\* column assigned None on line 85.
AbsentCol == [kind |-> "absent", allNull |-> TRUE, prev |-> None, last |-> None]
NoneCol == [kind |-> "none", allNull |-> TRUE, prev |-> None, last |-> None]
NaNCol == [kind |-> "series", allNull |-> TRUE, prev |-> NaN, last |-> NaN]
SeriesCol(p, l) == [kind |-> "series", allNull |-> FALSE, prev |-> p, last |-> l]

----------------------------------------------------------------------------
(* Sidebar inputs, lines 14-35 *)

PopularChoices == {"None", "AAPL", "MSFT", "GOOGL", "TSLA", "INFY.NS", "TCS.NS"}
IndicatorNames == {"SMA (20)", "EMA (20)", "RSI", "MACD"}
DefaultIndicators == {"SMA (20)", "RSI"}

\* ResolveTicker with the precedence reversed: a typed ticker wins.
ResolveTicker_typed_first(p, t) == IF t # "" THEN t ELSE p

\* lines 21-22
ResolveTicker(p, t) == IF p # "None" THEN p ELSE t

Emit(msg) == out' = Append(out, msg)

\* lines 14-26
ChooseTicker(populars, typeds) ==
    /\ pc = "ticker"
    /\ \E p \in populars, t \in typeds :
         /\ popular' = p
         /\ typed' = t
         /\ ticker' = ResolveTicker(p, t)
         /\ IF ResolveTicker(p, t) = ""
              THEN /\ Emit("warning: Please enter a stock ticker.")
                   /\ pc' = "stopped"
              ELSE /\ pc' = "select"
                   /\ UNCHANGED out
    /\ UNCHANGED <<indicators, columns, Close, close_col, SMA20, RSI, MACD,
                   Signal_Line, macd_curr, signal_curr, info, newsVars>>

\* lines 31-35
SelectIndicators(choices) ==
    /\ pc = "select"
    /\ \E sel \in choices : indicators' = sel
    /\ pc' = "load"
    /\ UNCHANGED <<popular, typed, ticker, columns, Close, close_col, SMA20, RSI,
                   MACD, Signal_Line, macd_curr, signal_curr, info, out, newsVars>>

----------------------------------------------------------------------------
(* Data load, lines 47-53.  yf.download is the external provider: the table *)
(* it returns is an input of the run.                                      *)

ProviderColumns == {"Date", "Open", "High", "Low", "Close", "Volume"}

\* Numeric closes are multiples of the averaging window, so that a window's
\* mean is an integer.
Price(i) == SMAWindow * (5 + (i % 3))

CloseSeries(n, bad, c) == [i \in 1..n |-> IF i \in bad THEN c ELSE Num(Price(i))]

\* A table as delivered: its columns and the cells of its Close column.
Table(cols, close) == <<cols, close>>

\* Tables of the pipeline: every length up to maxRows; all closes numeric, or
\* the first, the last or every close missing or non-numeric; and tables
\* without the Close column or without the High and Low columns.
PipelineTables(maxRows) ==
    {Table(ProviderColumns \ {"Close"}, <<>>)}
    \cup UNION {{Table(ProviderColumns, CloseSeries(n, bad, c)) :
                    bad \in {{}, {1}, {n}, 1..n}, c \in {NaN, Str}} : n \in 0..maxRows}
    \cup {Table(ProviderColumns \ {"High", "Low"}, CloseSeries(n, {}, NaN)) :
            n \in 2..maxRows}

\* Tables of the moving-average specification: every length up to maxRows
\* with at most two closes missing or non-numeric, at any positions.
SMATables(maxRows) ==
    {Table(ProviderColumns, CloseSeries(n, {i, j}, c)) :
        n \in 0..maxRows, i \in 0..maxRows, j \in 0..maxRows, c \in {NaN, Str}}

\* line 53, with reset_index (line 50)
load_data(tables) ==
    /\ pc = "load"
    /\ \E t \in tables :
         /\ columns' = t[1]
         /\ Close' = t[2]
    /\ pc' = "validate"
    /\ UNCHANGED <<popular, typed, ticker, indicators, close_col, SMA20, RSI, MACD,
                   Signal_Line, macd_curr, signal_curr, info, out, newsVars>>

\* line 59: the coercion of a whole column
to_numeric_series(col) == [i \in 1..Len(col) |-> to_numeric(col[i])]

\* line 60: Series.isnull().all(), true of an empty series
isnull_all(col) == \A i \in 1..Len(col) : IsNull(col[i])

\* lines 55-62.  Series.squeeze() on a column of exactly one row yields a
\* scalar, pd.to_numeric of a scalar yields a scalar, and a scalar has no
\* isnull(): line 60 raises AttributeError, which nothing catches.
ValidateClose ==
    /\ pc = "validate"
    /\ IF "Close" \notin columns
         THEN /\ Emit("error: 'Close' column missing.")
              /\ pc' = "stopped"
              /\ UNCHANGED close_col
         ELSE IF Len(Close) = 1
         THEN /\ close_col' = to_numeric_series(Close)
              /\ Emit("exception: AttributeError")
              /\ pc' = "crashed"
         ELSE /\ close_col' = to_numeric_series(Close)
              /\ IF isnull_all(to_numeric_series(Close))
                   THEN /\ Emit("error: 'Close' column contains only NaNs.")
                        /\ pc' = "stopped"
                   ELSE /\ pc' = "indicators"
                        /\ UNCHANGED out
    /\ UNCHANGED <<popular, typed, ticker, indicators, columns, Close, SMA20, RSI,
                   MACD, Signal_Line, macd_curr, signal_curr, info, newsVars>>

----------------------------------------------------------------------------
(* Indicators, lines 64-85 *)

RECURSIVE SumCells(_, _)
SumCells(col, idx) ==
    IF idx = {} THEN 0
    ELSE LET j == CHOOSE x \in idx : TRUE
         IN  col[j].v + SumCells(col, idx \ {j})

\* Series.rolling(window, min_periods).mean(): at i, the mean of the defined
\* entries among the last `window` ones, when at least min_periods of them
\* are defined.
rolling_mean(col, window, min_periods) ==
    [i \in 1..Len(col) |->
        LET valid == {j \in 1..i : j > i - window /\ IsNum(col[j])}
        IN  IF Cardinality(valid) >= min_periods /\ valid # {}
              THEN Num(SumCells(col, valid) \div Cardinality(valid))
              ELSE NaN]

\* sma_indicator as with fillna=True: min_periods = 0, a partial window counts.
sma_indicator_partial(close, window) == rolling_mean(close, window, 0)

\* ta.trend.sma_indicator(close, window) with fillna=False: min_periods = window
sma_indicator(close, window) == rolling_mean(close, window, window)

\* ta.momentum.rsi(close, window=14): exponentially smoothed gains and losses,
\* real-valued, so the values are inputs of the run; what the window fixes is
\* that a series of fewer than `window` rows is undefined everywhere.
rsi(close, window, tails) ==
    IF Len(close) < window THEN {NaNCol} ELSE tails

\* lines 65-72
ComputeIndicators(rsiTails) ==
    /\ pc = "indicators"
    /\ SMA20' = IF "SMA (20)" \in indicators
                  THEN sma_indicator(close_col, SMAWindow) ELSE SMA20
    /\ \E r \in rsi(close_col, RSIWindow, rsiTails) :
         RSI' = IF "RSI" \in indicators THEN r ELSE RSI
    /\ columns' = columns
          \cup (IF "SMA (20)" \in indicators THEN {"SMA20"} ELSE {})
          \cup (IF "EMA (20)" \in indicators THEN {"EMA20"} ELSE {})
          \cup (IF "RSI" \in indicators THEN {"RSI"} ELSE {})
    /\ pc' = "macd"
    /\ UNCHANGED <<popular, typed, ticker, indicators, Close, close_col, MACD,
                   Signal_Line, macd_curr, signal_curr, info, out, newsVars>>

\* ta.trend.macd(close): the primary line is a difference of two exponential
\* averages and the signal line an exponential average of it, real-valued,
\* so the lines are inputs of the run; a series shorter than the slow window
\* leaves both undefined everywhere.
macd(close, slow, lines) ==
    IF Len(close) < slow THEN {<<NaNCol, NaNCol>>} ELSE lines

\* What the library call of lines 77-79 does in one run: the two lines it
\* yields, and the line of the try block whose statement raises (0: none).
MACDOutcomes(close, lines) ==
    {[failAt |-> f, macd |-> l[1], signal |-> l[2]] :
        f \in {0, 77, 78, 79, 81, 82}, l \in macd(close, MACDSlow, lines)}

\* macd_block whose handler lacks line 85: the lines stay as computed.
macd_block_no_reset(o) ==
    LET notAllNull == ~o.macd.allNull
        failed == o.failAt \in {77, 78, 79} \/ (o.failAt \in {81, 82} /\ notAllNull)
    IN  [failed |-> failed,
         MACD |-> o.macd,
         Signal_Line |-> o.signal,
         macd_curr |-> IF notAllNull /\ o.failAt \in {0, 82} THEN o.macd.last ELSE None,
         signal_curr |-> IF notAllNull /\ o.failAt = 0 THEN o.signal.last ELSE None]

\* macd_block without the condition of line 80: the latest values are
\* captured from an entirely missing line too.
macd_block_no_guard(o) ==
    LET failed == o.failAt # 0
    IN  [failed |-> failed,
         MACD |-> IF failed THEN NoneCol ELSE o.macd,
         Signal_Line |-> IF failed THEN NoneCol ELSE o.signal,
         macd_curr |-> IF o.failAt \in {0, 82} THEN o.macd.last ELSE None,
         signal_curr |-> IF o.failAt = 0 THEN o.signal.last ELSE None]

\* lines 76-85: the try block and its handler, for one outcome o.  Lines 81
\* and 82 run only under the condition of line 80.
macd_block(o) ==
    LET notAllNull == ~o.macd.allNull
        failed == o.failAt \in {77, 78, 79} \/ (o.failAt \in {81, 82} /\ notAllNull)
    IN  [failed |-> failed,
         MACD |-> IF failed THEN NoneCol ELSE o.macd,
         Signal_Line |-> IF failed THEN NoneCol ELSE o.signal,
         macd_curr |-> IF notAllNull /\ o.failAt \in {0, 82} THEN o.macd.last ELSE None,
         signal_curr |-> IF notAllNull /\ o.failAt = 0 THEN o.signal.last ELSE None]

\* lines 74-85
ComputeMACD(lines) ==
    /\ pc = "macd"
    /\ IF "MACD" \in indicators
         THEN \E o \in MACDOutcomes(close_col, lines) :
                LET r == macd_block(o)
                IN  /\ MACD' = r.MACD
                    /\ Signal_Line' = r.Signal_Line
                    /\ macd_curr' = r.macd_curr
                    /\ signal_curr' = r.signal_curr
                    /\ columns' = columns \cup {"MACD", "Signal_Line"}
                    /\ IF r.failed THEN Emit("warning: MACD error") ELSE UNCHANGED out
         ELSE /\ macd_curr' = None
              /\ signal_curr' = None
              /\ UNCHANGED <<MACD, Signal_Line, columns, out>>
    /\ pc' = "charts"
    /\ UNCHANGED <<popular, typed, ticker, indicators, Close, close_col, SMA20, RSI,
                   info, newsVars>>

----------------------------------------------------------------------------
(* Charts, lines 87-143 *)

required_cols == {"Open", "High", "Low", "Close"}

\* lines 96-99: the rows that survive dropna; Open, High and Low are
\* numeric wherever the provider delivers them.
ohlc(close) == {i \in 1..Len(close) : IsNum(to_numeric(close[i]))}

\* lines 93-122
price_chart ==
    IF required_cols \subseteq columns
      THEN IF ohlc(Close) = {} THEN <<"warning: No valid OHLC data.">>
           ELSE <<"chart: price">>
      ELSE <<"warning: Missing OHLC columns.">>

\* lines 125-133
rsi_chart ==
    IF "RSI" \in indicators /\ "RSI" \in columns THEN <<"chart: RSI">> ELSE <<>>

\* lines 136-143: data['MACD'] is a column, never None itself
macd_chart ==
    IF "MACD" \in indicators /\ "MACD" \in columns THEN <<"chart: MACD">> ELSE <<>>

Charts ==
    /\ pc = "charts"
    /\ out' = out \o price_chart \o rsi_chart \o macd_chart
    /\ pc' = "metrics"
    /\ UNCHANGED <<popular, typed, ticker, indicators, columns, Close, close_col,
                   SMA20, RSI, MACD, Signal_Line, macd_curr, signal_curr, info,
                   newsVars>>

----------------------------------------------------------------------------
(* Key metrics and fundamentals, lines 145-165 *)

\* lines 148-150: float() of non-numeric text raises ValueError, a missing
\* High or Low column raises KeyError; float() of NaN does not raise.
metrics_raise ==
    \/ Close[Len(Close)].k = "str"
    \/ "High" \notin columns
    \/ "Low" \notin columns

KeyMetrics ==
    /\ pc = "metrics"
    /\ IF metrics_raise
         THEN /\ Emit("exception: key metrics")
              /\ pc' = "crashed"
         ELSE /\ Emit("metrics: Latest Close, 52W High, 52W Low")
              /\ pc' = "fundamentals"
    /\ UNCHANGED <<popular, typed, ticker, indicators, columns, Close, close_col,
                   SMA20, RSI, MACD, Signal_Line, macd_curr, signal_curr, info,
                   newsVars>>

\* lines 153-165.  ticker_obj.info is the external provider: a snapshot with
\* every metric ("full"), one with metrics absent ("partial"), or a retrieval
\* that raises ("unavailable"), which nothing catches.
Fundamentals(snapshots) ==
    /\ pc = "fundamentals"
    /\ \E i \in snapshots :
         /\ info' = i
         /\ IF i = "unavailable"
              THEN /\ Emit("exception: fundamentals")
                   /\ pc' = "crashed"
              ELSE /\ Emit("metrics: fundamentals")
                   /\ pc' = "rsi_insight"
    /\ UNCHANGED <<popular, typed, ticker, indicators, columns, Close, close_col,
                   SMA20, RSI, MACD, Signal_Line, macd_curr, signal_curr, newsVars>>

----------------------------------------------------------------------------
(* Investment insights, lines 167-190 *)

\* rsi_signal as a pure threshold on the latest value
rsi_signal_threshold(prev_rsi, latest_rsi) ==
    IF Gt(latest_rsi, Num(Overbought)) THEN "RSI: just entered overbought zone"
    ELSE IF Lt(latest_rsi, Num(Oversold)) THEN "RSI: just entered oversold zone"
    ELSE "RSI: neutral"

\* lines 174-179
rsi_signal(prev_rsi, latest_rsi) ==
    IF Gt(latest_rsi, Num(Overbought)) /\ Le(prev_rsi, Num(Overbought))
      THEN "RSI: just entered overbought zone"
    ELSE IF Lt(latest_rsi, Num(Oversold)) /\ Ge(prev_rsi, Num(Oversold))
      THEN "RSI: just entered oversold zone"
    ELSE "RSI: neutral"

\* lines 171-179
RSIInsight ==
    /\ pc = "rsi_insight"
    /\ IF "RSI" \in indicators /\ "RSI" \in columns
         THEN LET latest_rsi == RSI.last
                  prev_rsi == IF Len(Close) > 1 THEN RSI.prev ELSE latest_rsi
              IN  Emit(rsi_signal(prev_rsi, latest_rsi))
         ELSE UNCHANGED out
    /\ pc' = "macd_insight"
    /\ UNCHANGED <<popular, typed, ticker, indicators, columns, Close, close_col,
                   SMA20, RSI, MACD, Signal_Line, macd_curr, signal_curr, info,
                   newsVars>>

\* macd_signal with the previous point compared non-strictly
macd_signal_nonstrict(prev_macd, prev_signal, curr_macd, curr_signal) ==
    IF Le(prev_macd, prev_signal) /\ Gt(curr_macd, curr_signal)
      THEN "MACD: bullish crossover"
    ELSE IF Ge(prev_macd, prev_signal) /\ Lt(curr_macd, curr_signal)
      THEN "MACD: bearish crossover"
    ELSE "MACD: no crossover"

\* lines 185-190
macd_signal(prev_macd, prev_signal, curr_macd, curr_signal) ==
    IF Lt(prev_macd, prev_signal) /\ Gt(curr_macd, curr_signal)
      THEN "MACD: bullish crossover"
    ELSE IF Gt(prev_macd, prev_signal) /\ Lt(curr_macd, curr_signal)
      THEN "MACD: bearish crossover"
    ELSE "MACD: no crossover"

\* lines 182-190
MACDInsight ==
    /\ pc = "macd_insight"
    /\ IF macd_curr # None /\ signal_curr # None
         THEN LET prev_macd == IF Len(Close) > 1 THEN MACD.prev ELSE macd_curr
                  prev_signal == IF Len(Close) > 1 THEN Signal_Line.prev ELSE signal_curr
              IN  Emit(macd_signal(prev_macd, prev_signal, macd_curr, signal_curr))
         ELSE UNCHANGED out
    /\ pc' = "raw"
    /\ UNCHANGED <<popular, typed, ticker, indicators, columns, Close, close_col,
                   SMA20, RSI, MACD, Signal_Line, macd_curr, signal_curr, info,
                   newsVars>>

\* lines 193-194
RawData ==
    /\ pc = "raw"
    /\ pc' = "done"
    /\ UNCHANGED <<popular, typed, ticker, indicators, columns, Close, close_col,
                   SMA20, RSI, MACD, Signal_Line, macd_curr, signal_curr, info, out,
                   newsVars>>

----------------------------------------------------------------------------
(* The sentiment scorer: deduplicate the supplied headlines by exact text,  *)
(* keep the first SentimentCap distinct ones, score and bucket each.        *)

SentimentCap == 5
PositiveAbove == 10       \* polarity > 0.1, in hundredths
NegativeBelow == -10      \* polarity < -0.1, in hundredths

HeadlineTexts == {"X", "Y", "Z", "U", "V", "W"}

\* The external polarity model, in hundredths of [-1, 1]: a fixed function
\* of the headline text.
Polarity(h) ==
    CASE h = "X" -> 50
      [] h = "Y" -> -50
      [] h = "Z" -> 10
      [] h = "U" -> -10
      [] h = "V" -> 11
      [] OTHER -> -11

bucket(polarity) ==
    IF polarity > PositiveAbove THEN "positive"
    ELSE IF polarity < NegativeBelow THEN "negative"
    ELSE "neutral"

RECURSIVE dedup(_, _)
\* the headlines of list in order, without those in seen or met earlier
dedup(list, seen) ==
    IF list = <<>> THEN <<>>
    ELSE IF Head(list) \in seen THEN dedup(Tail(list), seen)
    ELSE <<Head(list)>> \o dedup(Tail(list), seen \cup {Head(list)})

first(list, n) == SubSeq(list, 1, IF Len(list) < n THEN Len(list) ELSE n)

\* score without the deduplication
score_no_dedup(list) ==
    LET kept == first(list, SentimentCap)
    IN  [i \in 1..Len(kept) |->
            [headline |-> kept[i], polarity |-> Polarity(kept[i]),
             sentiment |-> bucket(Polarity(kept[i]))]]

score(list) ==
    LET kept == first(dedup(list, {}), SentimentCap)
    IN  [i \in 1..Len(kept) |->
            [headline |-> kept[i], polarity |-> Polarity(kept[i]),
             sentiment |-> bucket(Polarity(kept[i]))]]

\* the news source supplies one more headline
ReceiveHeadline ==
    /\ scored = <<>>
    /\ Len(headlines) < MaxHeadlines
    /\ \E h \in HeadlineTexts : headlines' = Append(headlines, h)
    /\ UNCHANGED <<scored, runVars>>

ScoreHeadlines ==
    /\ scored = <<>>
    /\ headlines # <<>>
    /\ scored' = score(headlines)
    /\ UNCHANGED <<headlines, runVars>>

----------------------------------------------------------------------------
(* The inputs of a run *)

TypedChoices == {"", "TCS.NS"}
PopularInputs == {"None", "AAPL"}

Snapshots == {"full", "partial", "unavailable"}

Cells(values) == {Num(x) : x \in values} \cup {NaN}

\* The last two entries of an oscillator series: undefined everywhere, or
\* any two of the cells.
Tails(cells) == {SeriesCol(p, l) : p \in cells, l \in cells} \cup {NaNCol}

\* The last two entries of the primary and of the signal line: both
\* undefined everywhere, the signal line alone undefined everywhere, or any
\* two cells each.
Lines(primary, signal) ==
    {<<NaNCol, NaNCol>>}
    \cup {<<SeriesCol(a, b), NaNCol>> : a \in primary, b \in primary}
    \cup {<<SeriesCol(a, b), SeriesCol(c, d)>> :
            a \in primary, b \in primary, c \in signal, d \in signal}

\* Clean tables only: every close numeric.
CleanTables(maxRows) ==
    {Table(ProviderColumns, CloseSeries(n, {}, NaN)) : n \in 0..maxRows}

----------------------------------------------------------------------------
(* The state before the script's first line *)

InitRun ==
    /\ pc = "ticker"
    /\ popular = "None"
    /\ typed = ""
    /\ ticker = ""
    /\ indicators = DefaultIndicators
    /\ columns = {}
    /\ Close = <<>>
    /\ close_col = <<>>
    /\ SMA20 = <<>>
    /\ RSI = AbsentCol
    /\ MACD = AbsentCol
    /\ Signal_Line = AbsentCol
    /\ macd_curr = None
    /\ signal_curr = None
    /\ info = "unset"
    /\ out = <<>>

InitNews ==
    /\ headlines = <<>>
    /\ scored = <<>>

Init == InitRun /\ InitNews

\* The whole run: every ticker, selection, table shape and failure, with the
\* oscillator and the two lines drawn from a few cells.
AllSelections == SUBSET IndicatorNames
PipelineTableSet == PipelineTables(MaxRows)
PipelineTails == Tails(Cells({25, 75}))
PipelineLines == Lines(Cells({-1, 1}), Cells({0}))

Next ==
    \/ ChooseTicker(PopularInputs, TypedChoices)
    \/ SelectIndicators(AllSelections)
    \/ load_data(PipelineTableSet)
    \/ ValidateClose
    \/ ComputeIndicators(PipelineTails)
    \/ ComputeMACD(PipelineLines)
    \/ Charts
    \/ KeyMetrics
    \/ Fundamentals(Snapshots)
    \/ RSIInsight
    \/ MACDInsight
    \/ RawData

Spec == Init /\ [][Next]_vars

\* The run of one ticker over clean tables with the oscillator or the
\* trend-convergence pair selected, their values drawn from cells on both
\* sides of and on every threshold.
SignalSelections == SUBSET {"RSI", "MACD"}
SignalTableSet == CleanTables(MaxRows)
SignalTails == Tails(Cells({25, 30, 65, 70, 75}))
SignalLines == Lines(Cells({-1, 1}), Cells({-1, 1}))

NextSignals ==
    \/ ChooseTicker({"AAPL"}, {""})
    \/ SelectIndicators(SignalSelections)
    \/ load_data(SignalTableSet)
    \/ ValidateClose
    \/ ComputeIndicators(SignalTails)
    \/ ComputeMACD(SignalLines)
    \/ Charts
    \/ KeyMetrics
    \/ Fundamentals({"full"})
    \/ RSIInsight
    \/ MACDInsight
    \/ RawData

SpecSignals == Init /\ [][NextSignals]_vars

\* The run with the moving average selected, over tables with missing or
\* non-numeric closes at any one or two positions.
SMASelections == {{"SMA (20)"}, {"SMA (20)", "EMA (20)"}}
SMATableSet == SMATables(MaxSMARows)
NoTails == {NaNCol}
NoLines == {<<NaNCol, NaNCol>>}

NextSMA ==
    \/ ChooseTicker({"AAPL"}, {""})
    \/ SelectIndicators(SMASelections)
    \/ load_data(SMATableSet)
    \/ ValidateClose
    \/ ComputeIndicators(NoTails)
    \/ ComputeMACD(NoLines)
    \/ Charts
    \/ KeyMetrics
    \/ Fundamentals({"full"})
    \/ RSIInsight
    \/ MACDInsight
    \/ RawData

SpecSMA == Init /\ [][NextSMA]_vars

NextNews == ReceiveHeadline \/ ScoreHeadlines

SpecSentiment == Init /\ [][NextNews]_vars

----------------------------------------------------------------------------
(* Vocabulary of the properties *)

Emitted(msg) == \E i \in 1..Len(out) : out[i] = msg
Count(msgs) == Cardinality({i \in 1..Len(out) : out[i] \in msgs})

Overbought_msg == "RSI: just entered overbought zone"
Oversold_msg == "RSI: just entered oversold zone"
Neutral_msg == "RSI: neutral"
Bullish_msg == "MACD: bullish crossover"
Bearish_msg == "MACD: bearish crossover"
NoCrossover_msg == "MACD: no crossover"
RSIMessages == {Overbought_msg, Oversold_msg, Neutral_msg}
MACDMessages == {Bullish_msg, Bearish_msg, NoCrossover_msg}
MetricMessages == {"metrics: Latest Close, 52W High, 52W Low", "metrics: fundamentals"}
NoDataErrors == {"error: 'Close' column missing.", "error: 'Close' column contains only NaNs."}

\* the run is past the Close validation of lines 55-62
Validated == pc \notin {"ticker", "select", "load", "validate"} /\ ticker # ""
\* the Close column is absent, or no close coerces to a number
NoValidPriceData ==
    "Close" \notin columns \/ \A i \in 1..Len(Close) : ~IsNum(to_numeric(Close[i]))
NothingDerived ==
    /\ columns \subseteq ProviderColumns
    /\ SMA20 = <<>>
    /\ RSI = AbsentCol
    /\ MACD = AbsentCol
    /\ Signal_Line = AbsentCol
    /\ Count(RSIMessages \cup MACDMessages \cup MetricMessages) = 0
MACDFailed == Emitted("warning: MACD error")

----------------------------------------------------------------------------
(* Properties *)

\* C1: once the Close validation has run on a table whose Close column is
\* absent or holds no numeric close (a table of zero rows included), the run
\* has halted on a no-valid-price-data error as its last output, and no
\* indicator, key metric or signal exists.
C1_NoValidPriceDataHalts ==
    (Validated /\ NoValidPriceData) =>
        /\ pc = "stopped"
        /\ out # <<>>
        /\ out[Len(out)] \in NoDataErrors
        /\ NothingDerived

C3_MissingDataIsNotNeutral ==
    /\ Emitted(Neutral_msg) => (IsNum(RSI.prev) /\ IsNum(RSI.last))
    /\ Emitted(NoCrossover_msg) =>
          /\ IsNum(MACD.prev) /\ IsNum(MACD.last)
          /\ IsNum(Signal_Line.prev) /\ IsNum(Signal_Line.last)

\* C4: when the last two points of the primary and of the signal line are
\* defined, exactly one crossover signal is reported: bullish exactly when
\* the primary line was below the signal line and is now above it, bearish
\* exactly when it was above and is now below, no-crossover otherwise.
C4_CrossoverClassification ==
    (pc \in {"raw", "done"} /\ MACD.kind = "series"
        /\ IsNum(MACD.prev) /\ IsNum(MACD.last)
        /\ IsNum(Signal_Line.prev) /\ IsNum(Signal_Line.last)) =>
        LET up == MACD.prev.v < Signal_Line.prev.v /\ MACD.last.v > Signal_Line.last.v
            down == MACD.prev.v > Signal_Line.prev.v /\ MACD.last.v < Signal_Line.last.v
        IN  /\ Count(MACDMessages) = 1
            /\ Emitted(Bullish_msg) <=> up
            /\ Emitted(Bearish_msg) <=> down
            /\ Emitted(NoCrossover_msg) <=> (~up /\ ~down)

C4_Witness ==
    /\ pc = "done"
    /\ MACD.prev = Num(-1) /\ Signal_Line.prev = Num(1)
    /\ MACD.last = Num(1) /\ Signal_Line.last = Num(-1)
    /\ Emitted(Bullish_msg)

\* C5, in every state: after a failed MACD computation both lines are
\* unavailable, no crossover signal is reported, and the table carries the
\* MACD columns, which it never does when MACD was not requested.
C5_State ==
    /\ MACDFailed =>
          /\ "MACD" \in indicators
          /\ MACD = NoneCol /\ Signal_Line = NoneCol
          /\ {"MACD", "Signal_Line"} \subseteq columns
          /\ Count(MACDMessages) = 0
    /\ "MACD" \notin indicators =>
          /\ ~MACDFailed
          /\ MACD = AbsentCol /\ Signal_Line = AbsentCol
          /\ {"MACD", "Signal_Line"} \cap columns = {}

\* C5, in every step: the MACD computation hands over to the charts, whether
\* it failed or not; no exception ends the run there.
C5_Step == pc = "macd" => pc' = "charts"

\* C5: a failure of the MACD computation is local.
C5_MACDFailureIsLocal == []C5_State /\ [][C5_Step]_vars

C5_Witness ==
    /\ pc = "done"
    /\ MACDFailed
    /\ macd_curr # None

\* C6: a run that ended early on a table with a numeric close never exists:
\* every halt and every uncaught exception comes from a table without valid
\* price data.
C6_OnlyNoPriceDataIsFatal ==
    (Validated /\ pc \in {"stopped", "crashed"}) => NoValidPriceData

\* C7: the 20-period simple moving average is aligned with the closes, is
\* undefined everywhere on fewer than 20 rows, and is defined at position i
\* only when the closes at positions i-19..i all exist and are defined.
C7_SMADefinedOnlyOnFullWindow ==
    "SMA20" \in columns =>
        /\ Len(SMA20) = Len(Close)
        /\ Len(Close) < 20 => \A i \in 1..Len(SMA20) : ~IsNum(SMA20[i])
        /\ \A i \in 1..Len(SMA20) :
              IsNum(SMA20[i]) =>
                 /\ i >= 20
                 /\ \A j \in 1..Len(Close) : (i - 19 <= j /\ j <= i) => Close[j].k = "num"

C7_Witness ==
    /\ "SMA20" \in columns
    /\ \E i \in 1..Len(SMA20) : IsNum(SMA20[i])
    /\ \E i \in 20..Len(SMA20) : ~IsNum(SMA20[i])

\* C8: the scored items are the first occurrences of the distinct
\* headlines, in order, at most 5 of them; each is positive when its
\* polarity is above 0.1, negative when below -0.1 and neutral otherwise;
\* the headlines X, X, Y give exactly 2 scored items.
C8_DedupCapAndBucket ==
    scored # <<>> =>
        LET distinct == {headlines[i] : i \in 1..Len(headlines)}
            firstAt(h) == CHOOSE i \in 1..Len(headlines) :
                             headlines[i] = h /\ \A j \in 1..(i - 1) : headlines[j] # h
            taken == {scored[i].headline : i \in 1..Len(scored)}
        IN  /\ Len(scored) = IF Cardinality(distinct) < 5 THEN Cardinality(distinct) ELSE 5
            /\ taken \subseteq distinct
            /\ Cardinality(taken) = Len(scored)
            /\ \A i \in 1..Len(scored), j \in 1..Len(scored) :
                  i < j => firstAt(scored[i].headline) < firstAt(scored[j].headline)
            /\ \A h \in distinct \ taken, i \in 1..Len(scored) :
                  firstAt(scored[i].headline) < firstAt(h)
            /\ \A i \in 1..Len(scored) :
                  /\ scored[i].sentiment = "positive" <=> scored[i].polarity > 10
                  /\ scored[i].sentiment = "negative" <=> scored[i].polarity < -10
                  /\ scored[i].sentiment = "neutral" <=>
                        (scored[i].polarity >= -10 /\ scored[i].polarity <= 10)
            /\ headlines = <<"X", "X", "Y">> => Len(scored) = 2

C8_Witness ==
    /\ headlines = <<"X", "X", "Y">>
    /\ Len(scored) = 2

\* C9: an oscillator message needs RSI selected; a crossover message needs
\* MACD selected and both latest values captured from a primary line that is
\* not entirely missing; at most one message of each kind is written; an
\* unselected indicator has no derived column in the table.
C9_SignalsFollowSelection ==
    /\ Count(RSIMessages) > 0 => "RSI" \in indicators
    /\ Count(MACDMessages) > 0 =>
          /\ "MACD" \in indicators
          /\ macd_curr # None /\ signal_curr # None
          /\ MACD.kind = "series" /\ ~MACD.allNull
    /\ Count(RSIMessages) <= 1
    /\ Count(MACDMessages) <= 1
    /\ "SMA (20)" \notin indicators => ("SMA20" \notin columns /\ SMA20 = <<>>)
    /\ "EMA (20)" \notin indicators => "EMA20" \notin columns
    /\ "RSI" \notin indicators => ("RSI" \notin columns /\ RSI = AbsentCol)
    /\ "MACD" \notin indicators =>
          ({"MACD", "Signal_Line"} \cap columns = {} /\ MACD = AbsentCol)

C9_Witness ==
    /\ pc = "done"
    /\ indicators = {"RSI", "MACD"}
    /\ Count(RSIMessages) = 1
    /\ Count(MACDMessages) = 1
    /\ columns = ProviderColumns \cup {"RSI", "MACD", "Signal_Line"}

\* C10: once the ticker is resolved, a popular choice other than "None" is
\* the ticker whatever was typed; with an empty ticker the run has stopped
\* on the warning alone, with no table loaded and nothing computed.
C10_EmptyTickerStopsBeforeLoad ==
    pc # "ticker" =>
        /\ popular # "None" => ticker = popular
        /\ popular = "None" => ticker = typed
        /\ ticker = "" =>
              /\ pc = "stopped"
              /\ out = <<"warning: Please enter a stock ticker.">>
              /\ columns = {} /\ Close = <<>> /\ close_col = <<>>
              /\ NothingDerived
              /\ info = "unset"

C10_Witness ==
    /\ pc = "stopped"
    /\ ticker = ""
    /\ popular = "None"

====
